---- MODULE Spec2Model ----
(***************************************************************************)
(* Model of mypy/server/mergecheck.py: check_consistency, which looks for  *)
(* duplicate AST nodes after a merge, and path_to_str, which renders the   *)
(* access path of a node.  The graph walker the checker calls              *)
(* (mypy.server.objgraph: get_edges, get_reachable_graph, get_path) is     *)
(* modelled from the design document, section 4.1.                         *)
(*                                                                         *)
(* An object is modelled by its identity, a positive integer (id(x) = x).  *)
(* A dict is modelled by its keys in insertion order plus a function.      *)
(***************************************************************************)
EXTENDS Integers, Sequences, FiniteSets, TLC

VARIABLES
    edges,                \* get_edges(x): the (attr, e) members of each object, in order
    type_name,            \* type(x).__name__ of each object
    name,                 \* x.name, the short name (read for Var objects)
    fullname,             \* x.fullname of each SymbolNode, None when absent
    is_overload,          \* x.is_overload (read for FuncDef objects)
    DUMP_MISMATCH_NODES,  \* the module-level verbose switch
    pc,                   \* position in the running function
    seen,                 \* keys of the dict `seen`, in insertion order
    parents,              \* the dict `parents`: id -> (pid, attr)
    worklist,             \* the list `worklist` of get_reachable_graph
    syms,                 \* the list `syms` of check_consistency
    i,                    \* index of the loop `for sym in syms` (1-based)
    m,                    \* the dict `m`: fullname -> SymbolNode
    output,               \* the lines printed so far
    failure,              \* the AssertionError raised, NoFailure when none
    o,                    \* argument of the last get_path call
    path,                 \* argument of path_to_str / result of get_path
    result                \* value returned by path_to_str

vars == <<edges, type_name, name, fullname, is_overload, DUMP_MISMATCH_NODES,
          pc, seen, parents, worklist, syms, i, m, output, failure, o, path,
          result>>

graph == <<edges, type_name, name, fullname, is_overload, DUMP_MISMATCH_NODES>>

(***************************************************************************)
(* Bounds of the model.                                                    *)
(***************************************************************************)
MaxNodes == 3      \* objects of a graph given to the walker alone
MaxSyms == 3       \* objects besides the root in a graph given to check_consistency
MaxPathLen == 3    \* steps of a path given to path_to_str

(***************************************************************************)
(* Values.                                                                 *)
(***************************************************************************)
None == "None"
NoFailure == [line |-> 0, fn |-> None]
root == 1
Names == {"m.A", "m.B"}
EmptyDict == [k \in {} |-> 0]
Range(s) == {s[j] : j \in 1..Len(s)}

\* A label of an edge: an attribute name or a container key/index.  `int`
\* tells an integer index from a string; `s` is its text.
IntKey(n) == [int |-> TRUE, s |-> ToString(n)]
StrKey(t) == [int |-> FALSE, s |-> t]
\* repr(attr) and str(attr) of a label
repr_attr(attr) == IF attr.int THEN attr.s ELSE "'" \o attr.s \o "'"
str_attr(attr) == attr.s
\* repr(s) of a string
repr_str(s) == "'" \o s \o "'"
\* id(x)
id(x) == x

(***************************************************************************)
(* Graph walker (objgraph), after section 4.1 of the design document.      *)
(***************************************************************************)
\* seen[id(e)] = e; parents[id(e)] = (id(o), s) on an id-keyed dict
DictSet(d, k, v) == [x \in DOMAIN d \cup {k} |-> IF x = k THEN v ELSE d[x]]
KeysAdd(keys, k) == IF k \in Range(keys) THEN keys ELSE Append(keys, k)

\* for s, e in get_edges(obj): first discovery enters e, a later encounter is skipped
RECURSIVE visit_edges(_, _, _)
visit_edges_first_only(w, obj, es) ==
    IF es = <<>> THEN w
    ELSE LET ed == Head(es)
         IN  IF id(ed.e) \in Range(w.seen) THEN w
             ELSE [seen |-> KeysAdd(w.seen, id(ed.e)),
                   parents |-> DictSet(w.parents, id(ed.e), [pid |-> id(obj), attr |-> ed.attr]),
                   worklist |-> Append(w.worklist, ed.e)]
visit_edges(w, obj, es) ==
    IF es = <<>> THEN w
    ELSE LET ed == Head(es)
         IN  IF id(ed.e) \in Range(w.seen)
             THEN visit_edges(w, obj, Tail(es))
             ELSE visit_edges(
                    [seen |-> KeysAdd(w.seen, id(ed.e)),
                     parents |-> DictSet(w.parents, id(ed.e), [pid |-> id(obj), attr |-> ed.attr]),
                     worklist |-> Append(w.worklist, ed.e)],
                    obj, Tail(es))

\* the state of the walker before its loop
walk_start(r) == [seen |-> <<id(r)>>, parents |-> EmptyDict, worklist |-> <<r>>]

\* one iteration of the walker's loop: take an object off the worklist and
\* visit its members
walk_step(w) ==
    LET obj == w.worklist[Len(w.worklist)]
    IN  visit_edges([w EXCEPT !.worklist = SubSeq(w.worklist, 1, Len(w.worklist) - 1)],
                    obj, edges[obj])

RECURSIVE walk_loop(_)
walk_loop(w) == IF w.worklist = <<>> THEN w ELSE walk_loop(walk_step(w))

\* traverse(root): the snapshot (Node map, Edge map)
get_reachable_graph(r) == walk_loop(walk_start(r))

Reverse(s) == [j \in 1..Len(s) |-> s[Len(s) + 1 - j]]

\* Walk the Edge map from the target up to the object with no recorded edge,
\* with a defensive bound on the number of steps, then reverse.  A step is
\* (label, object holding the member with that label).
RECURSIVE climb(_, _, _, _)
climb(obj, acc, par, fuel) ==
    IF id(obj) \notin DOMAIN par \/ fuel = 0 THEN acc
    ELSE LET edge == par[id(obj)]
         IN  climb(edge.pid, Append(acc, [attr |-> edge.attr, obj |-> edge.pid]), par, fuel - 1)
get_path_unreversed(obj, sn, par) == climb(obj, <<>>, par, Len(sn))
get_path(obj, sn, par) == Reverse(climb(obj, <<>>, par, Len(sn)))

(***************************************************************************)
(* path_to_str (mergecheck.py, lines 67-82).                               *)
(***************************************************************************)
ContainerTypeNames_without_list == {"dict", "tuple", "SymbolTable"}
ContainerTypeNames == {"dict", "tuple", "SymbolTable", "list"}
ManagerTypeNames == {"BuildManager", "FineGrainedBuildManager"}

\* isinstance(x, Var): Var has no subclass among the modelled kinds
isinstance_Var(x) == type_name[x] = "Var"

\* the body of the loop `for attr, obj in path`
path_to_str_step(res, attr, obj) ==
    LET t == type_name[obj]
    IN  IF t \in ContainerTypeNames
        THEN res \o "[" \o repr_attr(attr) \o "]"
        ELSE IF isinstance_Var(obj)
             THEN res \o "." \o str_attr(attr) \o "(" \o t \o ":" \o name[obj] \o ")"
             ELSE IF t \in ManagerTypeNames
                  THEN res \o "." \o str_attr(attr)
                  ELSE res \o "." \o str_attr(attr) \o "(" \o t \o ")"

RECURSIVE path_to_str_loop(_, _)
path_to_str_loop(res, p) ==
    IF p = <<>> THEN res
    ELSE path_to_str_loop(path_to_str_step(res, Head(p).attr, Head(p).obj), Tail(p))

path_to_str(p) == path_to_str_loop("<root>", p)

(***************************************************************************)
(* check_consistency (mergecheck.py, lines 14-64).                         *)
(***************************************************************************)
SymbolNodeTypeNames == {"TypeInfo", "FakeInfo", "FuncDef", "Var", "Decorator"}
isinstance_SymbolNode(x) == type_name[x] \in SymbolNodeTypeNames
isinstance_FakeInfo(x) == type_name[x] = "FakeInfo"

\* reachable = list(seen.values()); syms = [x for x in reachable if isinstance(x, SymbolNode)]
RECURSIVE filter_syms(_)
filter_syms_unfiltered(reachable) == reachable
filter_syms(reachable) ==
    IF reachable = <<>> THEN <<>>
    ELSE IF isinstance_SymbolNode(Head(reachable))
         THEN <<Head(reachable)>> \o filter_syms(Tail(reachable))
         ELSE filter_syms(Tail(reachable))

\* "Skip stuff that should be expected to have duplicate names"
expected_duplicate_without_Decorator(sym) ==
    \/ type_name[sym] = "Var"
    \/ type_name[sym] = "FuncDef" /\ is_overload[sym]
expected_duplicate(sym) ==
    \/ type_name[sym] \in {"Var", "Decorator"}
    \/ type_name[sym] = "FuncDef" /\ is_overload[sym]

\* assert fn is not None
fullname_is_None_after_skip(sym) == fullname[sym] = None /\ ~expected_duplicate(sym)
fullname_is_None(sym) == fullname[sym] = None

\* fn not in m
not_in(fn, d) == fn \notin DOMAIN d

\* type(sym1) is not type(sym2)
type_changed_never(sym1, sym2) == FALSE
type_changed(sym1, sym2) == type_name[sym1] # type_name[sym2]

\* str(x) of an AST node: its full textual representation, kept abstract
str_node(x) == type_name[x] \o "(" \o fullname[x] \o ")"

\* lines 49-62: what is printed for the pair (sym1, sym2)
report_swapped(sym1, sym2, fn, d, sn, par, dump) ==
    LET path1 == get_path(sym1, sn, par)
        path2 == get_path(sym2, sn, par)
    IN  (IF fn \in DOMAIN d
         THEN << "\nDuplicate " \o repr_str(type_name[sym1]) \o " nodes with fullname "
                    \o repr_str(fn) \o " found:",
                 "[1] " \o ToString(id(sym2)) \o ": " \o path_to_str(path2),
                 "[2] " \o ToString(id(sym1)) \o ": " \o path_to_str(path1) >>
         ELSE <<>>)
        \o
        (IF dump /\ fn \in DOMAIN d
         THEN << "---", ToString(id(sym1)) \o " " \o str_node(sym1),
                 "---", ToString(id(sym2)) \o " " \o str_node(sym2) >>
         ELSE <<>>)
report_dump_instead(sym1, sym2, fn, d, sn, par, dump) ==
    LET path1 == get_path(sym1, sn, par)
        path2 == get_path(sym2, sn, par)
    IN  IF dump /\ fn \in DOMAIN d
        THEN << "---", ToString(id(sym1)) \o " " \o str_node(sym1),
                "---", ToString(id(sym2)) \o " " \o str_node(sym2) >>
        ELSE IF fn \in DOMAIN d
             THEN << "\nDuplicate " \o repr_str(type_name[sym1]) \o " nodes with fullname "
                        \o repr_str(fn) \o " found:",
                     "[1] " \o ToString(id(sym1)) \o ": " \o path_to_str(path1),
                     "[2] " \o ToString(id(sym2)) \o ": " \o path_to_str(path2) >>
             ELSE <<>>
report(sym1, sym2, fn, d, sn, par, dump) ==
    LET path1 == get_path(sym1, sn, par)
        path2 == get_path(sym2, sn, par)
    IN  (IF fn \in DOMAIN d
         THEN << "\nDuplicate " \o repr_str(type_name[sym1]) \o " nodes with fullname "
                    \o repr_str(fn) \o " found:",
                 "[1] " \o ToString(id(sym1)) \o ": " \o path_to_str(path1),
                 "[2] " \o ToString(id(sym2)) \o ": " \o path_to_str(path2) >>
         ELSE <<>>)
        \o
        (IF dump /\ fn \in DOMAIN d
         THEN << "---", ToString(id(sym1)) \o " " \o str_node(sym1),
                 "---", ToString(id(sym2)) \o " " \o str_node(sym2) >>
         ELSE <<>>)

\* The local state of check_consistency inside its loop.
continue(st) == [st EXCEPT !.i = @ + 1, !.pc = "loop"]
raise(st, line, fn) == [st EXCEPT !.pc = "failed", !.failure = [line |-> line, fn |-> fn]]

\* lines 25-62: one iteration of `for sym in syms`, up to the final assertion
loop_body(st, ss, sn, par, dump) ==
    LET sym == ss[st.i]
        fn == fullname[sym]
    IN  IF isinstance_FakeInfo(sym) THEN continue(st)
        ELSE IF fullname_is_None(sym) THEN raise(st, 30, fn)
        ELSE IF expected_duplicate(sym) THEN continue(st)
        ELSE IF not_in(fn, st.m) THEN continue([st EXCEPT !.m = DictSet(st.m, fullname[sym], sym)])
        ELSE LET sym1 == sym
                 sym2 == st.m[fn]
             IN  IF type_changed(sym1, sym2) THEN continue(st)
                 ELSE [st EXCEPT !.output = @ \o report(sym1, sym2, fn, st.m, sn, par, dump),
                                 !.pc = "assert"]

\* line 64: assert sym.fullname not in m
final_assert(st, ss) ==
    LET sym == ss[st.i]
    IN  IF not_in(fullname[sym], st.m) THEN continue(st) ELSE raise(st, 64, fullname[sym])

\* the loop is exhausted: check_consistency returns
loop_exit(st) == [st EXCEPT !.pc = "done"]

\* one step of check_consistency from local state st
check_step(st, ss, sn, par, dump) ==
    IF st.pc = "assert" THEN final_assert(st, ss)
    ELSE IF st.i > Len(ss) THEN loop_exit(st)
    ELSE loop_body(st, ss, sn, par, dump)

\* check_consistency run to its end from local state st
RECURSIVE check_run(_, _, _, _, _)
check_run(st, ss, sn, par, dump) ==
    IF st.pc \in {"done", "failed"} THEN st
    ELSE check_run(check_step(st, ss, sn, par, dump), ss, sn, par, dump)

\* the local state when the loop is entered
loop_entry == [pc |-> "loop", i |-> 1, m |-> EmptyDict, output |-> <<>>, failure |-> NoFailure]

(***************************************************************************)
(* Inputs.                                                                 *)
(***************************************************************************)
\* The kinds an object besides the root may have in a checked graph: a plain
\* list, or a SymbolNode.  A FakeInfo has no readable fullname.
Entities ==
    {[t |-> "list", fn |-> None, ov |-> FALSE], [t |-> "FakeInfo", fn |-> None, ov |-> FALSE]}
    \cup {[t |-> t, fn |-> fn, ov |-> FALSE] :
            t \in {"TypeInfo", "Var", "Decorator"}, fn \in Names \cup {None}}
    \cup {[t |-> "FuncDef", fn |-> fn, ov |-> ov] : fn \in Names \cup {None}, ov \in BOOLEAN}

CheckNodes == 1..(MaxSyms + 1)
Key(n) == StrKey("k" \o ToString(n))

\* A dict holding every other object under its own key.
FlatEdges ==
    [n \in CheckNodes |->
        IF n = root THEN [j \in 1..MaxSyms |-> [attr |-> Key(j + 1), e |-> j + 1]] ELSE <<>>]

\* A manager referring to the first object; the first object refers to the
\* second and to the last one, every other object to the next one, and the
\* last one back to the first (a cycle, and the last object is shared by
\* two referrers).
ChainEdges ==
    [n \in CheckNodes |->
        IF n = root
        THEN <<[attr |-> StrKey("graph"), e |-> 2]>>
        ELSE IF n = 2
             THEN <<[attr |-> StrKey("node"), e |-> 3], [attr |-> StrKey("defs"), e |-> MaxSyms + 1]>>
             ELSE IF n < MaxSyms + 1
                  THEN <<[attr |-> StrKey("node"), e |-> n + 1]>>
                  ELSE <<[attr |-> StrKey("defn"), e |-> 2]>>]

\* the members of a list, in index order
RECURSIVE ListEdges(_, _)
ListEdges(S, k) ==
    IF S = {} THEN <<>>
    ELSE LET x == CHOOSE y \in S : \A z \in S : y <= z
         IN  <<[attr |-> IntKey(k), e |-> x]>> \o ListEdges(S \ {x}, k + 1)

WalkNodes == 1..MaxNodes

\* objects for the steps of a rendered path: one of each kind path_to_str
\* tells apart, and two kinds it does not name
RenderTypeNames ==
    <<"dict", "tuple", "SymbolTable", "list", "Var", "BuildManager",
      "FineGrainedBuildManager", "TypeInfo", "defaultdict">>
RenderNodes == 1..Len(RenderTypeNames)
RenderSteps == {[attr |-> a, obj |-> x] : a \in {StrKey("names"), IntKey(0)}, x \in RenderNodes}

Idle ==
    /\ seen = <<>> /\ parents = EmptyDict /\ worklist = <<>>
    /\ syms = <<>> /\ i = 1 /\ m = EmptyDict /\ output = <<>> /\ failure = NoFailure
    /\ o = root /\ path = <<>> /\ result = ""

\* check_consistency(root) is about to be called on a graph
Init ==
    /\ \E ent \in [CheckNodes \ {root} -> Entities], flat \in BOOLEAN :
        /\ edges = IF flat THEN FlatEdges ELSE ChainEdges
        /\ type_name = [n \in CheckNodes |->
                          IF n = root THEN (IF flat THEN "dict" ELSE "FineGrainedBuildManager")
                          ELSE ent[n].t]
        /\ fullname = [n \in CheckNodes |-> IF n = root THEN None ELSE ent[n].fn]
        /\ is_overload = [n \in CheckNodes |-> IF n = root THEN FALSE ELSE ent[n].ov]
    /\ name = [n \in CheckNodes |-> "x" \o ToString(n)]
    /\ DUMP_MISMATCH_NODES \in BOOLEAN
    /\ pc = "check"
    /\ Idle

\* get_reachable_graph(root) is about to be called on a graph of lists
InitWalk ==
    /\ \E children \in [WalkNodes -> SUBSET WalkNodes] :
        edges = [n \in WalkNodes |-> ListEdges(children[n], 0)]
    /\ type_name = [n \in WalkNodes |-> "list"]
    /\ name = [n \in WalkNodes |-> ""]
    /\ fullname = [n \in WalkNodes |-> None]
    /\ is_overload = [n \in WalkNodes |-> FALSE]
    /\ DUMP_MISMATCH_NODES = FALSE
    /\ pc = "traverse"
    /\ Idle

\* path_to_str(path) is about to be called
InitRender ==
    /\ edges = [n \in RenderNodes |-> <<>>]
    /\ type_name = [n \in RenderNodes |-> RenderTypeNames[n]]
    /\ name = [n \in RenderNodes |-> "x"]
    /\ fullname = [n \in RenderNodes |-> None]
    /\ is_overload = [n \in RenderNodes |-> FALSE]
    /\ DUMP_MISMATCH_NODES = FALSE
    /\ pc = "render"
    /\ seen = <<>> /\ parents = EmptyDict /\ worklist = <<>>
    /\ syms = <<>> /\ i = 1 /\ m = EmptyDict /\ output = <<>> /\ failure = NoFailure
    /\ o = root /\ result = ""
    /\ \E k \in 0..MaxPathLen : path \in [1..k -> RenderSteps]

(***************************************************************************)
(* Actions of the walker alone.                                            *)
(***************************************************************************)
Walker == [seen |-> seen, parents |-> parents, worklist |-> worklist]
SetWalker(w) == seen' = w.seen /\ parents' = w.parents /\ worklist' = w.worklist

WalkStart ==
    /\ pc = "traverse"
    /\ SetWalker(walk_start(root))
    /\ pc' = "walk"
    /\ UNCHANGED <<graph, syms, i, m, output, failure, o, path, result>>

WalkStep ==
    /\ pc = "walk" /\ worklist # <<>>
    /\ SetWalker(walk_step(Walker))
    /\ UNCHANGED <<graph, pc, syms, i, m, output, failure, o, path, result>>

WalkReturn ==
    /\ pc = "walk" /\ worklist = <<>>
    /\ pc' = "walked"
    /\ UNCHANGED <<graph, seen, parents, worklist, syms, i, m, output, failure, o, path, result>>

GetPath ==
    /\ pc \in {"walked", "path"}
    /\ \E t \in Range(seen) :
        /\ o' = t
        /\ path' = get_path(t, seen, parents)
    /\ pc' = "path"
    /\ UNCHANGED <<graph, seen, parents, worklist, syms, i, m, output, failure, result>>

NextWalk == WalkStart \/ WalkStep \/ WalkReturn \/ GetPath

(***************************************************************************)
(* Action of the renderer alone.                                           *)
(***************************************************************************)
Render ==
    /\ pc = "render"
    /\ result' = path_to_str(path)
    /\ pc' = "rendered"
    /\ UNCHANGED <<graph, seen, parents, worklist, syms, i, m, output, failure, o, path>>

NextRender == Render

(***************************************************************************)
(* Actions of check_consistency.                                           *)
(***************************************************************************)
Local == [pc |-> pc, i |-> i, m |-> m, output |-> output, failure |-> failure]
SetLocal(st) ==
    /\ pc' = st.pc /\ i' = st.i /\ m' = st.m /\ output' = st.output /\ failure' = st.failure
    /\ UNCHANGED <<graph, seen, parents, worklist, syms, o, path, result>>
Step == SetLocal(check_step(Local, syms, seen, parents, DUMP_MISMATCH_NODES))

InLoop == pc = "loop" /\ i <= Len(syms)
sym == syms[i]

\* lines 19-23
Traverse ==
    /\ pc = "check"
    /\ LET w == get_reachable_graph(root)
       IN  /\ seen' = w.seen
           /\ parents' = w.parents
           /\ syms' = filter_syms(w.seen)
    /\ pc' = "loop" /\ i' = 1 /\ m' = EmptyDict
    /\ UNCHANGED <<graph, worklist, output, failure, o, path, result>>

\* lines 25-26
SkipFakeInfo == InLoop /\ isinstance_FakeInfo(sym) /\ Step

\* lines 28-30, the assertion failing
AssertFullnameFails ==
    InLoop /\ ~isinstance_FakeInfo(sym) /\ fullname_is_None(sym) /\ Step

Named == InLoop /\ ~isinstance_FakeInfo(sym) /\ ~fullname_is_None(sym)

\* lines 33-36
SkipExpectedDuplicate == Named /\ expected_duplicate(sym) /\ Step

\* lines 38-40
Record == Named /\ ~expected_duplicate(sym) /\ not_in(fullname[sym], m) /\ Step

Collision == Named /\ ~expected_duplicate(sym) /\ ~not_in(fullname[sym], m)

\* lines 43-47
SkipTypeChanged == Collision /\ type_changed(sym, m[fullname[sym]]) /\ Step

\* lines 49-62
Report == Collision /\ ~type_changed(sym, m[fullname[sym]]) /\ Step

\* line 64
FinalAssert == pc = "assert" /\ Step

\* the loop ends and check_consistency returns
Return == pc = "loop" /\ i > Len(syms) /\ Step

Next ==
    \/ Traverse
    \/ SkipFakeInfo
    \/ AssertFullnameFails
    \/ SkipExpectedDuplicate
    \/ Record
    \/ SkipTypeChanged
    \/ Report
    \/ FinalAssert
    \/ Return

Spec == Init /\ [][Next]_vars
SpecWalk == InitWalk /\ [][NextWalk]_vars
FairSpecWalk == InitWalk /\ [][NextWalk]_vars /\ WF_vars(WalkStart) /\ WF_vars(WalkStep) /\ WF_vars(WalkReturn)
SpecRender == InitRender /\ [][NextRender]_vars

(***************************************************************************)
(* Vocabulary of the properties, stated on the graph, not on the code.     *)
(***************************************************************************)
Objects == DOMAIN edges
Members(x) == {edges[x][j].e : j \in 1..Len(edges[x])}
Referrers(x) == {y \in Objects : x \in Members(y)}

\* the objects reachable from r through structural references
RECURSIVE Closure(_)
Closure(S) ==
    LET T == S \cup UNION {Members(x) : x \in S}
    IN  IF T = S THEN S ELSE Closure(T)
Reachable == Closure({root})

NameableEntity(x) == type_name[x] \in {"TypeInfo", "FakeInfo", "FuncDef", "Var", "Decorator"}
Placeholder(x) == type_name[x] = "FakeInfo"
Exempt(x) ==
    \/ type_name[x] = "Var"
    \/ type_name[x] = "Decorator"
    \/ type_name[x] = "FuncDef" /\ is_overload[x]
\* an entity that takes part in duplicate checking
Checked(x) == NameableEntity(x) /\ ~Placeholder(x) /\ ~Exempt(x)
ReachableEntities == {x \in Reachable : NameableEntity(x)}
SameName(x, y) == x # y /\ fullname[x] # None /\ fullname[x] = fullname[y]
NoAbsentName == \A x \in ReachableEntities : Placeholder(x) \/ fullname[x] # None
Raised == pc = "failed"
Completed == pc = "done"
Running == pc = "loop" /\ i <= Len(syms)
Position(x) == CHOOSE k \in 1..Len(syms) : syms[k] = x
NoDuplicates(s) == \A j, k \in 1..Len(s) : s[j] = s[k] => j = k

(***************************************************************************)
(* C1.  Stated property: whenever two distinct entities of the same        *)
(* concrete kind, neither exempt, share a fully-qualified name,            *)
(* check_consistency raises; so it never completes on such a graph.        *)
(* The code completes when an entity of another kind with that name was    *)
(* recorded first.                                                         *)
(***************************************************************************)
C1_SameKindDuplicateRaises ==
    Completed =>
        ~ \E x, y \in Reachable :
            /\ Checked(x) /\ Checked(y) /\ SameName(x, y)
            /\ type_name[x] = type_name[y]

(***************************************************************************)
(* C2.  Original statement: a reachable entity of any kind with an absent  *)
(* name makes check_consistency raise (it never completes).                *)
(***************************************************************************)
C2_AnyAbsentNameRaises ==
    Completed => ~ \E x \in ReachableEntities : fullname[x] = None

\* C2 as amended: a reachable entity other than a FakeInfo placeholder with
\* an absent name makes check_consistency raise, whatever its kind (exempt
\* kinds included) and whatever else is in the graph.
C2_AbsentNameRaises ==
    Completed => ~ \E x \in ReachableEntities : ~Placeholder(x) /\ fullname[x] = None

\* the assertion on the name has failed on an entity of an exempt kind
C2_Witness ==
    /\ Raised /\ failure.line = 30
    /\ Exempt(syms[i]) /\ fullname[syms[i]] = None

(***************************************************************************)
(* C3.  Exempt entities are never recorded in the seen-names map, a step   *)
(* on an exempt entity changes neither the map nor the output and does not *)
(* fail, and a graph in which every pair of entities sharing a name has an *)
(* exempt member never fails (given no name is absent).                    *)
(***************************************************************************)
C3_OnlyExemptCollisions ==
    /\ NoAbsentName
    /\ \A x, y \in ReachableEntities : SameName(x, y) => Exempt(x) \/ Exempt(y) \/ Placeholder(x) \/ Placeholder(y)
C3_State ==
    /\ \A fn \in DOMAIN m : ~Exempt(m[fn])
    /\ C3_OnlyExemptCollisions => ~Raised /\ pc # "assert" /\ output = <<>>
C3_Step ==
    (Running /\ Exempt(syms[i]) /\ fullname[syms[i]] # None) =>
        /\ m' = m /\ output' = output /\ failure' = failure
        /\ pc' = "loop" /\ i' = i + 1
\* C3: exempt entities are never recorded, never compared, and never make the check fail
C3_ExemptNeverChecked == []C3_State /\ [][C3_Step]_vars

\* completed on a graph where two exempt entities and one checked entity
\* share a name, one exempt entity visited before the checked one and one after
C3_Witness ==
    /\ Completed
    /\ \E x, y, z \in ReachableEntities :
        /\ Exempt(x) /\ Exempt(y) /\ Checked(z)
        /\ SameName(x, z) /\ SameName(z, y) /\ SameName(x, y)
        /\ Position(x) < Position(z) /\ Position(z) < Position(y)

(***************************************************************************)
(* C4.  A checked entity whose name is already recorded for an entity of a *)
(* different concrete kind is skipped: no failure, no output, the map      *)
(* unchanged.  A graph whose only name collision is between two entities   *)
(* of different kinds completes without raising (no name being absent).    *)
(***************************************************************************)
C4_KindChanged ==
    /\ Running /\ Checked(syms[i]) /\ fullname[syms[i]] \in DOMAIN m
    /\ type_name[m[fullname[syms[i]]]] # type_name[syms[i]]
C4_Step ==
    C4_KindChanged =>
        /\ m' = m /\ output' = output /\ failure' = failure
        /\ pc' = "loop" /\ i' = i + 1
C4_OnlyKindChangeCollision ==
    /\ NoAbsentName
    /\ \E x, y \in ReachableEntities :
        /\ SameName(x, y) /\ type_name[x] # type_name[y]
        /\ \A u, v \in ReachableEntities : SameName(u, v) => {u, v} = {x, y}
C4_State == C4_OnlyKindChangeCollision => ~Raised /\ pc # "assert" /\ output = <<>>
\* C4: a name collision between entities of different kinds is skipped silently, the map unchanged
C4_KindChangeSkipped == []C4_State /\ [][C4_Step]_vars

\* completed on a graph whose only collision is between two checked
\* entities of different kinds
C4_Witness ==
    /\ Completed /\ C4_OnlyKindChangeCollision
    /\ \E x, y \in ReachableEntities : SameName(x, y) /\ Checked(x) /\ Checked(y)

(***************************************************************************)
(* C5.  When all reachable entities have present, pairwise distinct        *)
(* names, check_consistency processes every entity, completes without      *)
(* raising and prints nothing.                                             *)
(***************************************************************************)
C5_DistinctNames ==
    /\ \A x \in ReachableEntities : fullname[x] # None
    /\ \A x, y \in ReachableEntities : ~SameName(x, y)
\* C5: with present, pairwise distinct names every entity is processed, nothing raised, nothing printed
C5_DistinctNamesSilent ==
    C5_DistinctNames =>
        /\ ~Raised /\ pc # "assert" /\ output = <<>>
        /\ Completed =>
            /\ i = Cardinality(ReachableEntities) + 1
            /\ \A x \in ReachableEntities : Checked(x) => m[fullname[x]] = x

\* completed on a graph with two checked entities of distinct names
C5_Witness ==
    /\ Completed /\ C5_DistinctNames
    /\ \E x, y \in ReachableEntities : x # y /\ Checked(x) /\ Checked(y)

(***************************************************************************)
(* C6.  The traversal terminates on every graph, cyclic or with shared     *)
(* children; at its end the keys of the Node map are exactly the objects   *)
(* reachable from the root, and each object is entered once: the map only  *)
(* grows by objects not yet in it, a recorded edge is never replaced, and  *)
(* an object taken off the worklist never returns to it.                   *)
(***************************************************************************)
C6_Walked == pc \in {"walked", "path"}
C6_State ==
    /\ NoDuplicates(seen) /\ NoDuplicates(worklist)
    /\ Range(worklist) \subseteq Range(seen)
    /\ C6_Walked =>
        /\ Range(seen) = Reachable
        /\ DOMAIN parents = Reachable \ {root}
C6_Step ==
    /\ Len(seen) <= Len(seen') /\ SubSeq(seen', 1, Len(seen)) = seen
    /\ \A k \in (Len(seen) + 1)..Len(seen') : seen'[k] \notin Range(seen)
    /\ \A x \in DOMAIN parents : x \in DOMAIN parents' /\ parents'[x] = parents[x]
    /\ (Range(seen) \ Range(worklist)) \subseteq (Range(seen') \ Range(worklist'))
\* C6: the traversal terminates, its Node map is the reachable set, each object entered once
C6_TraverseTerminates == <>C6_Walked /\ []C6_State /\ [][C6_Step]_vars

\* the traversal has ended on a graph with a cycle through the root and a
\* child shared by two parents
C6_Witness ==
    /\ pc = "walked"
    /\ \E x \in Reachable \ {root} : root \in Members(x)
    /\ \E x \in Reachable \ {root} : Cardinality(Referrers(x) \cap Reachable) >= 2

(***************************************************************************)
(* C7.  For a visited object at depth k of the tree of recorded edges, the *)
(* reconstructed path has exactly k steps in root-to-target order: the     *)
(* first step starts at the root, each step carries the label of the edge  *)
(* recorded for the object the step leads to, and the last step leads to   *)
(* the target; so the path of a shared object goes through its recorded    *)
(* parent.  (A step holds the label and the object the label is read on.)  *)
(***************************************************************************)
RECURSIVE LevelOf(_, _)
LevelOf(x, L) ==
    IF x \in L THEN 0
    ELSE 1 + LevelOf(x, {y \in DOMAIN parents : parents[y].pid \in L})
C7_Depth(x) == LevelOf(x, {root})
\* the object step j of the path leads to
C7_Target(j) == IF j = Len(path) THEN o ELSE path[j + 1].obj
\* C7: the path of an object at depth k has k steps along the recorded edges, root first, target last
C7_PathFollowsRecordedEdges ==
    pc = "path" =>
        /\ Len(path) = C7_Depth(o)
        /\ Len(path) > 0 => path[1].obj = root
        /\ \A j \in 1..Len(path) :
            /\ C7_Target(j) \in DOMAIN parents
            /\ parents[C7_Target(j)] = [pid |-> path[j].obj, attr |-> path[j].attr]
            /\ \E k \in 1..Len(edges[path[j].obj]) :
                edges[path[j].obj][k] = [attr |-> path[j].attr, e |-> C7_Target(j)]

\* the path of an object at depth 2 that two objects refer to
C7_Witness ==
    /\ pc = "path" /\ Len(path) >= 2
    /\ Cardinality(Referrers(o) \cap Reachable) >= 2

(***************************************************************************)
(* C8.  On a genuine violation the output comes before the failure, never  *)
(* after it and never without it: a header with the kind and the colliding *)
(* name, a line for the newly seen entity, a line for the recorded one,    *)
(* each with the identity and the rendered path; the failure is about the  *)
(* same name, and nothing runs after it.                                   *)
(***************************************************************************)
C8_New == syms[i]
C8_Old == m[fullname[syms[i]]]
C8_Line(tag, x) ==
    tag \o " " \o ToString(x) \o ": " \o path_to_str(get_path(x, seen, parents))
C8_Header ==
    "\nDuplicate '" \o type_name[C8_New] \o "' nodes with fullname '"
        \o fullname[C8_New] \o "' found:"
C8_State ==
    /\ output # <<>> =>
        /\ pc \in {"assert", "failed"}
        /\ Checked(C8_New) /\ Checked(C8_Old) /\ SameName(C8_New, C8_Old)
        /\ type_name[C8_New] = type_name[C8_Old]
        /\ Position(C8_Old) < i
        /\ Len(output) >= 3
        /\ output[1] = C8_Header
        /\ output[2] = C8_Line("[1]", C8_New)
        /\ output[3] = C8_Line("[2]", C8_Old)
    /\ pc = "assert" => output # <<>> /\ failure = NoFailure
    /\ Raised =>
        \/ failure.line = 30 /\ output = <<>>
        \/ failure.line = 64 /\ output # <<>> /\ failure.fn = fullname[C8_New]
C8_Step ==
    /\ ~Raised
    /\ pc = "assert" => pc' = "failed" /\ output' = output /\ i' = i /\ m' = m
    /\ output' # output => output = <<>> /\ pc' = "assert" /\ failure' = NoFailure
\* C8: header and two path lines are printed before the failure on the same name, and nothing runs after it
C8_ReportThenRaise == []C8_State /\ [][C8_Step]_vars

\* raised on a duplicate while entities remain unexamined, the new entity
\* lying two references away from the root
C8_Witness ==
    /\ Raised /\ failure.line = 64 /\ i < Len(syms)
    /\ Len(get_path(syms[i], seen, parents)) >= 2

(***************************************************************************)
(* C9.  The verbose switch only adds the dump: the run with the switch on  *)
(* and the run with it off end the same way, with the same failure, and    *)
(* print the same header and path lines; the dump follows the path lines,  *)
(* is there before the failure, and only on a genuine violation.  The run  *)
(* the program makes is the one computed for its value of the switch.      *)
(***************************************************************************)
C9_On == check_run(loop_entry, syms, seen, parents, TRUE)
C9_Off == check_run(loop_entry, syms, seen, parents, FALSE)
C9_Prefix(s, n) == SubSeq(s, 1, IF Len(s) < n THEN Len(s) ELSE n)
C9_Dump(x) == ToString(x) \o " " \o str_node(x)
C9_Run == IF DUMP_MISMATCH_NODES THEN C9_On ELSE C9_Off
\* C9: the runs with the verbose switch on and off differ only by the dump after the path lines
C9_SwitchOnlyAddsDump ==
    /\ (pc = "loop" /\ i = 1) =>
        /\ C9_On.pc = C9_Off.pc /\ C9_On.failure = C9_Off.failure
        /\ C9_On.i = C9_Off.i /\ C9_On.m = C9_Off.m
        /\ Len(C9_Off.output) \in {0, 3}
        /\ C9_Off.output = C9_Prefix(C9_On.output, 3)
        /\ C9_On.output # C9_Off.output =>
            /\ C9_On.pc = "failed" /\ C9_On.failure.line = 64
            /\ SubSeq(C9_On.output, 4, Len(C9_On.output)) =
                 << "---", C9_Dump(syms[C9_On.i]),
                    "---", C9_Dump(C9_On.m[fullname[syms[C9_On.i]]]) >>
        /\ C9_On.pc = "failed" /\ C9_On.failure.line = 64 => Len(C9_On.output) = 7
    /\ pc \in {"done", "failed"} => Local = C9_Run
    /\ pc = "assert" => output = C9_Run.output

\* raised on a duplicate with the switch on, the dump printed
C9_Witness == Raised /\ DUMP_MISMATCH_NODES /\ Len(output) = 7

(***************************************************************************)
(* C10.  The rendered string is the root marker followed by one segment    *)
(* per step, in order; a segment depends on its step alone: a subscript    *)
(* for a container (dict, tuple, list, SymbolTable), else a field access   *)
(* with kind and short name for a variable, bare for the two manager       *)
(* kinds, and with the kind in every other case.                           *)
(***************************************************************************)
C10_Segment(step) ==
    LET t == type_name[step.obj]
        label == step.attr.s
    IN  CASE t \in {"dict", "tuple", "list", "SymbolTable"} ->
               IF step.attr.int THEN "[" \o label \o "]" ELSE "['" \o label \o "']"
          [] t = "Var" -> "." \o label \o "(Var:" \o name[step.obj] \o ")"
          [] t \in {"BuildManager", "FineGrainedBuildManager"} -> "." \o label
          [] OTHER -> "." \o label \o "(" \o t \o ")"
RECURSIVE C10_Segments(_)
C10_Segments(p) == IF p = <<>> THEN "" ELSE C10_Segment(Head(p)) \o C10_Segments(Tail(p))
\* C10: the rendered string is the root marker followed by one segment per step, in order
C10_RenderedBySegments ==
    pc = "rendered" => result = "<root>" \o C10_Segments(path)

\* a rendered path with a list step, a variable step and a manager step
C10_Witness ==
    /\ pc = "rendered"
    /\ \E a, b, c \in 1..Len(path) :
        /\ type_name[path[a].obj] = "list" /\ path[a].attr.int
        /\ type_name[path[b].obj] = "Var"
        /\ type_name[path[c].obj] = "BuildManager"

====
